---- MODULE Spec2Model ----
(***************************************************************************)
(* A model of src/auction_scraper.py: the link relevance filter, the date  *)
(* and property extractors, scrape_page and scrape_auctions.               *)
(*                                                                         *)
(* Text is modelled as a sequence of atoms (words, separators, file        *)
(* extensions).  A Python substring test `x in s` is a contiguous          *)
(* sub-sequence test, `s.endswith(x)` a suffix test and `s.lower()` maps   *)
(* every atom to its lower-case form.  Regular expressions are matched on  *)
(* whitespace-separated tokens, a line break being the token "\n".         *)
(***************************************************************************)
EXTENDS Integers, Sequences, FiniteSets, TLC

VARIABLES
    pc,          \* position of scrape_auctions: "site", "links", "done"
    idx,         \* index in COUNTY_SITES of the source being scraped
    page,        \* anchors of the fetched seed page not yet visited (soup.find_all)
    seen,        \* scrape_page: the (title, full) keys already visited
    out,         \* scrape_page: the rows built for the current source
    results,     \* scrape_auctions: the rows of all sources so far
    deduped,     \* scrape_auctions: the returned list
    fetched,     \* history: every URL handed to sess.get
    failures,    \* history: the sources whose scrape_page ended in a failure
    last,        \* history: what happened to the anchor visited last
    lr_text, lr_href, lr_ret, lr_pc,   \* one call of looks_relevant
    pd_text, pd_ret, pd_pc             \* one call of parse_date_strings

pipeVars == <<pc, idx, page, seen, out, results, deduped, fetched, failures, last>>
lrVars   == <<lr_text, lr_href, lr_ret, lr_pc>>
pdVars   == <<pd_text, pd_ret, pd_pc>>
vars     == <<pipeVars, lrVars, pdVars>>

---------------------------------------------------------------------------
(* Bounds of the model *)

NumSites    == 2    \* how many entries of COUNTY_SITES are scraped
MaxLinks    == 2    \* anchors on one seed page
MaxTextLen  == 2    \* atoms of a link text given to looks_relevant
MaxHrefLen  == 2    \* atoms of a URL given to looks_relevant
MaxDateLen  == 4    \* tokens of a text given to parse_date_strings

---------------------------------------------------------------------------
(* Strings *)

RECURSIVE SeqsUpTo(_, _)
SeqsUpTo(S, n) ==
    IF n = 0 THEN {<< >>}
    ELSE LET shorter == SeqsUpTo(S, n - 1)
         IN  shorter \cup {Append(s, a) : s \in {t \in shorter : Len(t) = n - 1}, a \in S}

\* the atoms that hold an upper-case letter, each with its lower-case form
LowerPairs ==
    { <<"Sheriff", "sheriff">>, <<"SHERIFF", "sheriff">>, <<"Sale", "sale">>,
      <<"Auction", "auction">>, <<"Tax", "tax">>, <<"Notice", "notice">>,
      <<"Jobs", "jobs">>, <<"JAIL", "jail">>, <<".PDF", ".pdf">>,
      <<".DOCX", ".docx">>, <<"March", "march">>, <<"MARCH", "march">>,
      <<"Address:", "address:">>, <<"Property", "property">>, <<"Parcel", "parcel">>,
      <<"Lot", "lot">>, <<"Legal", "legal">>, <<"Description:", "description:">>,
      <<"Elm", "elm">>, <<"Pine", "pine">>, <<"PINE", "pine">>,
      <<"Rd.", "rd.">>, <<"RD.", "rd.">>, <<"St.", "st.">>,
      <<"Courthouse", "courthouse">>, <<"County", "county">>, <<"Judge", "judge">>,
      <<"Office", "office">>, <<"ADDRESS:", "address:">>, <<"TAX", "tax">>,
      <<"SALE", "sale">> }

LowerTable ==
    [a \in {p[1] : p \in LowerPairs} |-> (CHOOSE p \in LowerPairs : p[1] = a)[2]]

\* str.lower() on one atom
LowerAtom(a) == IF a \in DOMAIN LowerTable THEN LowerTable[a] ELSE a

\* str.lower()
lower(s) == [i \in 1..Len(s) |-> LowerAtom(s[i])]

\* x in s
Contains(x, s) ==
    \E i \in 0..(Len(s) - Len(x)) : SubSeq(s, i + 1, i + Len(x)) = x

\* s.endswith(x)
EndsWith(s, x) ==
    /\ Len(s) >= Len(x)
    /\ SubSeq(s, Len(s) - Len(x) + 1, Len(s)) = x

---------------------------------------------------------------------------
(* SETTINGS *)

INCLUDE_HINTS ==
    { <<"auction">>, <<"commissioner">>, <<"sheriff">>, <<"sale">>, <<"foreclosure">>,
      <<"tax", " ", "sale">>, <<"public", " ", "notice">>, <<"trustee">> }

EXCLUDE_HINTS ==
    { <<"inmate">>, <<"detention">>, <<"jail">>, <<"visitation">>, <<"k9">>,
      <<"pay-", "taxes">>, <<"treasurer">>, <<"taxes">>, <<"forms">>, <<"faq">>,
      <<"resources">>, <<"records">>, <<"jobs">>, <<"careers">>, <<"swat">>,
      <<"juvenile">>, <<"security">> }

DOC_EXT == { <<".pdf">>, <<".doc">>, <<".docx">> }

---------------------------------------------------------------------------
(* looks_relevant *)

looks_relevant(text, href) ==
    LET t == lower(text)
        h == lower(href)
    IN  IF /\ \E x \in INCLUDE_HINTS : Contains(x, t) \/ Contains(x, h)
           /\ ~ \E x \in EXCLUDE_HINTS : Contains(x, t) \/ Contains(x, h)
        THEN TRUE
        ELSE IF /\ \E e \in DOC_EXT : EndsWith(h, e)
                /\ ~ \E x \in EXCLUDE_HINTS : Contains(x, h)
        THEN TRUE
        ELSE FALSE

---------------------------------------------------------------------------
(* parse_date_strings *)

MonthNames ==
    { "january", "february", "march", "april", "may", "june", "july", "august",
      "september", "october", "november", "december" }

\* tokens that \b\d{1,2}/\d{1,2}/\d{2,4}\b matches ("3/14/20255" is not one)
NumericDateTokens == { "03/14/2025", "13/45/2099", "1/2/25" }

\* tokens that \d{1,2}, matches right before white space
DayCommaTokens == { "3,", "14," }

\* what \d{2,4}\b matches at the start of a token, "" when nothing
YearPrefix(tok) ==
    CASE tok = "2025"       -> "2025"
      [] tok = "25"         -> "25"
      [] tok = "03/14/2025" -> "03"
      [] tok = "13/45/2099" -> "13"
      [] OTHER              -> ""

\* the match of pattern p that starts at token i, << >> when there is none
MatchAt(p, text, i) ==
    IF p = "numeric"
    THEN IF text[i] \in NumericDateTokens THEN <<text[i]>> ELSE << >>
    ELSE IF /\ i + 2 <= Len(text)
            /\ LowerAtom(text[i]) \in MonthNames
            /\ text[i + 1] \in DayCommaTokens
            /\ YearPrefix(text[i + 2]) # ""
         THEN <<text[i], text[i + 1], YearPrefix(text[i + 2])>>
         ELSE << >>

\* re.search(p, text, flags=re.IGNORECASE): the leftmost match, << >> for None
RECURSIVE SearchFrom(_, _, _)
SearchFrom(p, text, i) ==
    IF i > Len(text) THEN << >>
    ELSE IF MatchAt(p, text, i) # << >> THEN MatchAt(p, text, i)
    ELSE SearchFrom(p, text, i + 1)

re_search(p, text) == SearchFrom(p, text, 1)

DatePatternsTextualFirst == <<"textual", "numeric">>

DatePatterns == <<"numeric", "textual">>

RECURSIVE TryPatterns(_, _)
TryPatterns(ps, text) ==
    IF ps = << >> THEN << >>
    ELSE IF re_search(Head(ps), text) # << >> THEN re_search(Head(ps), text)
    ELSE TryPatterns(Tail(ps), text)

\* white space of any kind separates the tokens of a date
IsWord(a) == a # "\n"

parse_date_strings(text) == TryPatterns(DatePatterns, SelectSeq(text, IsWord))

---------------------------------------------------------------------------
(* Document text: tokens separated by blanks, "\n" ends a line *)

Min(a, b) == IF a <= b THEN a ELSE b

\* the first index >= j of a token that is not a line break, 0 when none
NextOnLine(text, j) ==
    LET S == {k \in j..Len(text) : text[k] # "\n"}
    IN  IF S = {} THEN 0 ELSE CHOOSE k \in S : \A m \in S : k <= m

\* the last index of the line that token j is on ([^\n]* is greedy)
LineEnd(text, j) ==
    LET S == {k \in j..Len(text) : \A m \in j..k : text[m] # "\n"}
    IN  IF S = {} THEN j - 1 ELSE CHOOSE k \in S : \A m \in S : m <= k

\* the first index of the line that token j is on
LineStart(text, j) ==
    LET S == {k \in 1..j : \A m \in k..j : text[m] # "\n"}
    IN  IF S = {} THEN j + 1 ELSE CHOOSE k \in S : \A m \in S : k <= m

\* the slices [:200] and [:120], counted in atoms
PropMaxLen == 200
LocMaxLen  == 120

Truncate(s, n) == SubSeq(s, 1, Min(Len(s), n))

StreetWords ==
    { "street", "st.", "avenue", "ave.", "road", "rd.", "lane", "ln.", "drive", "dr." }

\* tokens that begin with a digit
DigitTokens == { "100", "789", "12", "03/14/2025", "13/45/2099", "1/2/25", "2025",
                 "25", "3,", "14,", "3/14/20255" }

\* the marker-led patterns of extract_property_bits, in the order of the list:
\* the marker's tokens, whether \d+ must follow, whether the match runs to the
\* end of the line ([^\n]+ or [^\n]*) or over one word (\w+[-\w]*)
PropertyPatterns ==
    << [marker |-> <<"address:">>,              digits |-> FALSE, line |-> TRUE],
       [marker |-> <<"parcel">>,                digits |-> FALSE, line |-> FALSE],
       [marker |-> <<"lot">>,                   digits |-> TRUE,  line |-> TRUE],
       [marker |-> <<"legal", "description:">>, digits |-> FALSE, line |-> TRUE],
       [marker |-> <<"property", "address:">>,  digits |-> FALSE, line |-> TRUE] >>

\* the match of marker pattern p that starts at token i, << >> when there is none;
\* \s* and \s+ after the marker run over line breaks too
PropertyMatchAt(p, text, i) ==
    LET n == Len(p.marker)
        j == NextOnLine(text, i + n)
    IN  IF /\ i + n - 1 <= Len(text)
           /\ lower(SubSeq(text, i, i + n - 1)) = p.marker
           /\ j # 0
           /\ p.digits => text[j] \in DigitTokens
        THEN SubSeq(text, i, IF p.line THEN LineEnd(text, j) ELSE j)
        ELSE << >>

RECURSIVE PropertySearchFrom(_, _, _)
PropertySearchFrom(p, text, i) ==
    IF i > Len(text) THEN << >>
    ELSE IF PropertyMatchAt(p, text, i) # << >> THEN PropertyMatchAt(p, text, i)
    ELSE PropertySearchFrom(p, text, i + 1)

\* the backup pattern: the first line holding a street word
StreetLine(text) ==
    LET S == {k \in 1..Len(text) : LowerAtom(text[k]) \in StreetWords}
    IN  IF S = {} THEN << >>
        ELSE LET k == CHOOSE x \in S : \A m \in S : x <= m
             IN  SubSeq(text, LineStart(text, k), LineEnd(text, k))

RECURSIVE TryPropertyPatterns(_, _)
TryPropertyPatterns(ps, text) ==
    IF ps = << >> THEN Truncate(StreetLine(text), PropMaxLen)
    ELSE IF PropertySearchFrom(Head(ps), text, 1) # << >>
         THEN Truncate(PropertySearchFrom(Head(ps), text, 1), PropMaxLen)
    ELSE TryPropertyPatterns(Tail(ps), text)

extract_property_bits(text) == TryPropertyPatterns(PropertyPatterns, text)

\* at\s+the\s+[^\n,]*courthouse, leftmost match
AtTheCourthouse(text) ==
    LET t == lower(text)
        S == {i \in 1..(Len(t) - 2) :
                 /\ t[i] = "at"
                 /\ NextOnLine(t, i + 1) # 0
                 /\ t[NextOnLine(t, i + 1)] = "the"
                 /\ \E k \in (NextOnLine(t, i + 1) + 1)..Len(t) :
                        /\ t[k] = "courthouse"
                        /\ \A m \in (NextOnLine(t, i + 1) + 1)..k : t[m] # "\n"}
    IN  IF S = {} THEN << >>
        ELSE LET i == CHOOSE x \in S : \A m \in S : x <= m
                 K == {k \in (NextOnLine(t, i + 1) + 1)..Len(t) :
                          /\ t[k] = "courthouse"
                          /\ \A m \in (NextOnLine(t, i + 1) + 1)..k : t[m] # "\n"}
             IN  SubSeq(text, i, CHOOSE k \in K : \A m \in K : m <= k)

extract_location(text) ==
    LET t == lower(text)
    IN  IF Contains(<<"courthouse">>, t) THEN <<"Courthouse">>
        ELSE IF Contains(<<"sheriff">>, t) /\ Contains(<<"office">>, t)
             THEN <<"Sheriff's Office">>
        ELSE IF Contains(<<"county", "judge">>, t) THEN <<"County Judge Office">>
        ELSE Truncate(AtTheCourthouse(text), LocMaxLen)

\* a saved file: whether pdfplumber can open and read it, and its text layer
NoDetails ==
    [auction_date |-> << >>, auction_location |-> << >>, property_details |-> << >>]

extract_pdf_details_from_file(file) ==
    IF file.readable
    THEN [auction_date     |-> parse_date_strings(file.text),
          auction_location |-> extract_location(file.text),
          property_details |-> extract_property_bits(file.text)]
    ELSE NoDetails

---------------------------------------------------------------------------
(* URLs, anchors and rows *)

Url(host, path) == [host |-> host, path |-> path]

\* the URL as the string the filter sees (the scheme holds no keyword)
UrlStr(u) == u.host \o u.path

\* the first entries of COUNTY_SITES
COUNTY_SITES ==
    << [county |-> "Sebastian County", url |-> Url(<<"sebastiancountyar.gov">>, <<"/">>)],
       [county |-> "Pulaski County",   url |-> Url(<<"pulaskicounty.net">>, <<"/">>)],
       [county |-> "Crawford County",  url |-> Url(<<"crawfordcountyar.gov">>, <<"/">>)],
       [county |-> "Franklin County",  url |-> Url(<<"franklincountyar.gov">>, <<"/">>)] >>

\* urlparse(full).netloc.split(":")[0].endswith(urlparse(base).netloc.split(":")[0])
same_site(full, base) == EndsWith(full.host, base.host)

IsDoc(full) == \E e \in DOC_EXT : EndsWith(lower(UrlStr(full)), e)

IsPdf(full) == EndsWith(lower(UrlStr(full)), <<".pdf">>)

\* a.get_text(" ", strip=True) or "(no title)"
Title(a) == IF a.text = << >> THEN <<"(no title)">> ELSE a.text

\* the guard of line 187 without the relevance filter
ShouldFollow_NoFilter(title, full, base) == same_site(full, base) \/ IsDoc(full)

\* line 187
ShouldFollow(title, full, base) ==
    looks_relevant(title, UrlStr(full)) /\ (same_site(full, base) \/ IsDoc(full))

NewRow(county, title, full) ==
    [county |-> county, title |-> title, link |-> full,
     auction_date |-> << >>, auction_location |-> << >>,
     property_details |-> << >>, local_pdf |-> << >>]

\* re.sub(r"[^\w\-\. ]", "_", name) on one atom
SanitizeAtom(a) ==
    CASE a = "(no title)" -> "_no title_"
      [] OTHER            -> a

FileNameMax == 180

sanitize_filename(name) ==
    LET cleaned == Truncate([i \in 1..Len(name) |-> SanitizeAtom(name[i])], FileNameMax)
    IN  IF cleaned = << >> THEN <<"file">> ELSE cleaned

\* download_pdf that takes an error response for the document
download_pdf_NoRaiseForStatus(ok, out_dir, hint) ==
    LET basename == sanitize_filename(hint)
    IN  out_dir \o (IF EndsWith(lower(basename), <<".pdf">>)
                    THEN basename ELSE basename \o <<".pdf">>)

\* ok: sess.get returned and raise_for_status passed and the file was written
download_pdf(ok, out_dir, hint) ==
    IF ok
    THEN LET basename == sanitize_filename(hint)
         IN  out_dir \o (IF EndsWith(lower(basename), <<".pdf">>)
                         THEN basename ELSE basename \o <<".pdf">>)
    ELSE << >>

PdfDir == <<"output/today/pdfs/">>

\* lines 198-204: the row of a PDF link
PdfRow(row, saved, file) ==
    LET r == [row EXCEPT !.local_pdf = saved]
        det == extract_pdf_details_from_file(file)
    IN  IF saved # << >>
        THEN [r EXCEPT !.auction_date = det.auction_date,
                       !.auction_location = det.auction_location,
                       !.property_details = det.property_details]
        ELSE r

\* a row is kept only when it holds a property
AppendRow_OnlyWithProperty(o, row) ==
    IF row.property_details = << >> THEN o ELSE Append(o, row)

\* line 206
AppendRow(o, row) == Append(o, row)

\* a failure drops the rows of the page
ReturnAfterException_Empty(o) == << >>

\* lines 210-216: every handler prints and falls through to `return out`
ReturnAfterException(o) == o

---------------------------------------------------------------------------
(* Deduplicate by link, lines 228-234 *)

DedupKey_CountyLink(r) == <<r.county, r.link>>

DedupKey_TitleLink(r) == <<r.title, r.link>>

DedupKey_Property(r) == lower(r.property_details)

DedupKey(r) == r.link

RECURSIVE DedupLoop(_, _, _)
DedupLoop(rs, acc, keys) ==
    IF rs = << >> THEN acc
    ELSE IF DedupKey(Head(rs)) \notin keys
         THEN DedupLoop(Tail(rs), Append(acc, Head(rs)), keys \cup {DedupKey(Head(rs))})
    ELSE DedupLoop(Tail(rs), acc, keys)

RECURSIVE Reverse(_)
Reverse(s) == IF s = << >> THEN << >> ELSE Append(Reverse(Tail(s)), Head(s))

\* the last occurrence of a link wins
Deduplicate_KeepLast(rs) == Reverse(DedupLoop(Reverse(rs), << >>, {}))

Deduplicate(rs) == DedupLoop(rs, << >>, {})

---------------------------------------------------------------------------
(* The environment: what the seed pages link to and what the documents hold *)

SebastianNotice == Url(<<"sebastiancountyar.gov">>, <<"/", "notice1", ".pdf">>)

PulaskiSale == Url(<<"docs.", "pulaskicounty.net">>, <<"/", "sale", ".PDF">>)

SebastianAuction == Url(<<"sebastiancountyar.gov">>, <<"/", "auction">>)

\* what the seed page of each source may link to: a.text is the anchor's text and
\* a.full is urljoin(resp.url, a["href"])
SeedLinks ==
    << { [text |-> <<"Sheriff", " ", "Sale">>, full |-> SebastianNotice],
         [text |-> << >>,                      full |-> SebastianNotice],
         [text |-> <<"Jobs">>,
          full |-> Url(<<"sebastiancountyar.gov">>, <<"/", "jobs", ".html">>)] },
       { [text |-> <<"Tax", " ", "Sale">>,
          full |-> PulaskiSale],
         [text |-> <<"Notice">>,  full |-> SebastianNotice],
         [text |-> <<"Auction">>, full |-> Url(<<"pulaskicounty.net">>, <<"/", "auction">>)],
         [text |-> <<"Auction">>, full |-> SebastianAuction] },
       { [text |-> <<"Notice">>,  full |-> SebastianNotice] },
       { [text |-> <<"Notice">>,  full |-> SebastianNotice] } >>

Pages(i) == SeqsUpTo(SeedLinks[i], MaxLinks)

NoticeText ==
    << "Notice", "\n", "Property", "Address:", "789", "Pine", "Rd.", "\n",
       "Sale", "03/14/2025", "at", "the", "Courthouse" >>

\* the same property, as the notice of the other county prints it
NoticeTextUpper ==
    << "TAX", "SALE", "1/2/25", "\n", "ADDRESS:", "789", "PINE", "RD." >>

\* the text layers pdfplumber may find in the document behind a link; << >> is
\* a scan without a text layer
PdfTexts(full) ==
    IF full = PulaskiSale THEN { << >>, NoticeTextUpper } ELSE { << >>, NoticeText }

UnreadableFile == [readable |-> FALSE, text |-> << >>]

NoLast == [outcome |-> "none", anchor |-> [text |-> << >>, full |-> Url(<< >>, << >>)]]

---------------------------------------------------------------------------
(* scrape_auctions and scrape_page *)

PipelineIdle ==
    /\ pc = "site"
    /\ idx = 1
    /\ page = << >>
    /\ seen = {}
    /\ out = << >>
    /\ results = << >>
    /\ deduped = << >>
    /\ fetched = {}
    /\ failures = {}
    /\ last = NoLast

Init ==
    /\ PipelineIdle
    /\ lr_text = << >> /\ lr_href = << >> /\ lr_ret = FALSE /\ lr_pc = "idle"
    /\ pd_text = << >> /\ pd_ret = << >> /\ pd_pc = "idle"

County == COUNTY_SITES[idx].county
SeedUrl == COUNTY_SITES[idx].url

AtSource == pc = "site" /\ idx <= NumSites

\* scrape_page returns `o` for the current source: results.extend(o), next source
Return(o, failed) ==
    /\ results' = results \o o
    /\ idx' = idx + 1
    /\ pc' = "site"
    /\ page' = << >>
    /\ seen' = {}
    /\ out' = << >>
    /\ last' = NoLast
    /\ failures' = IF failed THEN failures \cup {idx} ELSE failures
    /\ UNCHANGED <<deduped, lrVars, pdVars>>

\* lines 165-167
DnsFails ==
    /\ AtSource
    /\ Return(<< >>, TRUE)
    /\ UNCHANGED fetched

\* lines 170-172
Http403 ==
    /\ AtSource
    /\ fetched' = fetched \cup {SeedUrl}
    /\ Return(<< >>, TRUE)

\* lines 173-175
HttpError ==
    /\ AtSource
    /\ fetched' = fetched \cup {SeedUrl}
    /\ Return(<< >>, TRUE)

\* sess.get raises requests.exceptions.ConnectionError, lines 210-211
ConnectionError ==
    /\ AtSource
    /\ fetched' = fetched \cup {SeedUrl}
    /\ Return(ReturnAfterException(<< >>), TRUE)

\* sess.get raises requests.exceptions.Timeout, lines 212-213
Timeout ==
    /\ AtSource
    /\ fetched' = fetched \cup {SeedUrl}
    /\ Return(ReturnAfterException(<< >>), TRUE)

\* any other exception of sess.get or BeautifulSoup, lines 214-216
UnexpectedOnPage ==
    /\ AtSource
    /\ fetched' = fetched \cup {SeedUrl}
    /\ Return(ReturnAfterException(<< >>), TRUE)

\* lines 169-178: the seed page is retrieved and parsed; no redirect, so that
\* resp.url is the seed URL
FetchPage ==
    /\ AtSource
    /\ \E pg \in Pages(idx) : page' = pg
    /\ fetched' = fetched \cup {SeedUrl}
    /\ pc' = "links"
    /\ seen' = {}
    /\ out' = << >>
    /\ last' = NoLast
    /\ UNCHANGED <<idx, results, deduped, failures, lrVars, pdVars>>

AtAnchor == pc = "links" /\ page # << >>

Key(a) == <<Title(a), a.full>>

\* any other exception while an anchor is processed, lines 214-216
Unexpected ==
    /\ AtAnchor
    /\ Return(ReturnAfterException(out), TRUE)
    /\ UNCHANGED fetched

Continue(a, outcome) ==
    /\ page' = Tail(page)
    /\ last' = [outcome |-> outcome, anchor |-> a]
    /\ UNCHANGED <<pc, idx, results, deduped, failures, lrVars, pdVars>>

\* lines 183-184
AnchorSeen ==
    /\ AtAnchor
    /\ Key(Head(page)) \in seen
    /\ Continue(Head(page), "seen")
    /\ UNCHANGED <<seen, out, fetched>>

\* line 187 is false
AnchorRejected ==
    /\ AtAnchor
    /\ Key(Head(page)) \notin seen
    /\ ~ShouldFollow(Title(Head(page)), Head(page).full, SeedUrl)
    /\ seen' = seen \cup {Key(Head(page))}
    /\ Continue(Head(page), "rejected")
    /\ UNCHANGED <<out, fetched>>

Accepted(a) ==
    /\ AtAnchor
    /\ Key(a) \notin seen
    /\ ShouldFollow(Title(a), a.full, SeedUrl)

Emit(a, row, outcome) ==
    /\ seen' = seen \cup {Key(a)}
    /\ out' = AppendRow(out, row)
    /\ Continue(a, outcome)

\* lines 188-196, 206: a relevant link that is no PDF
AnchorPage ==
    LET a == Head(page)
    IN  /\ Accepted(a)
        /\ ~IsPdf(a.full)
        /\ Emit(a, NewRow(County, Title(a), a.full), "page")
        /\ UNCHANGED fetched

Hint(a) == <<County, " - ">> \o Title(a)

\* lines 198-206: download_pdf returns ""
PdfDownloadFails ==
    LET a == Head(page)
        saved == download_pdf(FALSE, PdfDir, Hint(a))
    IN  /\ Accepted(a)
        /\ IsPdf(a.full)
        /\ fetched' = fetched \cup {a.full}
        /\ Emit(a, PdfRow(NewRow(County, Title(a), a.full), saved, UnreadableFile),
                "download_failed")

\* lines 198-206: the file is saved; pdfplumber cannot read it
PdfUnreadable ==
    LET a == Head(page)
        saved == download_pdf(TRUE, PdfDir, Hint(a))
    IN  /\ Accepted(a)
        /\ IsPdf(a.full)
        /\ fetched' = fetched \cup {a.full}
        /\ Emit(a, PdfRow(NewRow(County, Title(a), a.full), saved, UnreadableFile),
                "unreadable")

\* lines 198-206: the file is saved and read
PdfRead ==
    LET a == Head(page)
        saved == download_pdf(TRUE, PdfDir, Hint(a))
    IN  /\ Accepted(a)
        /\ IsPdf(a.full)
        /\ fetched' = fetched \cup {a.full}
        /\ \E t \in PdfTexts(a.full) :
              Emit(a, PdfRow(NewRow(County, Title(a), a.full), saved,
                             [readable |-> TRUE, text |-> t]),
                   IF t = << >> THEN "no_text" ELSE "read")

\* line 208
PageDone ==
    /\ pc = "links"
    /\ page = << >>
    /\ Return(out, FALSE)
    /\ UNCHANGED fetched

\* lines 228-234
Dedup ==
    /\ pc = "site"
    /\ idx > NumSites
    /\ deduped' = Deduplicate(results)
    /\ pc' = "done"
    /\ UNCHANGED <<idx, page, seen, out, results, fetched, failures, last,
                   lrVars, pdVars>>

Next ==
    \/ DnsFails \/ Http403 \/ HttpError \/ ConnectionError \/ Timeout
    \/ UnexpectedOnPage \/ FetchPage
    \/ Unexpected \/ AnchorSeen \/ AnchorRejected \/ AnchorPage
    \/ PdfDownloadFails \/ PdfUnreadable \/ PdfRead
    \/ PageDone \/ Dedup

Spec == Init /\ [][Next]_vars

---------------------------------------------------------------------------
(* One call of looks_relevant on every text and URL within the bounds *)

RelevantTextAtoms == { "Sheriff", "JAIL", "news", "Tax", " ", "Sale" }
RelevantHrefAtoms == { "sheriff", "jobs", "page", ".pdf", ".DOCX" }

InitRelevant ==
    /\ PipelineIdle
    /\ lr_text \in SeqsUpTo(RelevantTextAtoms, MaxTextLen)
    /\ lr_href \in SeqsUpTo(RelevantHrefAtoms, MaxHrefLen)
    /\ lr_ret = FALSE
    /\ lr_pc = "call"
    /\ pd_text = << >> /\ pd_ret = << >> /\ pd_pc = "idle"

CallLooksRelevant ==
    /\ lr_pc = "call"
    /\ lr_ret' = looks_relevant(lr_text, lr_href)
    /\ lr_pc' = "done"
    /\ UNCHANGED <<lr_text, lr_href, pipeVars, pdVars>>

SpecRelevant == InitRelevant /\ [][CallLooksRelevant]_vars

---------------------------------------------------------------------------
(* One call of parse_date_strings on every text within the bound *)

DateTokens == { "03/14/2025", "13/45/2099", "3/14/20255", "March", "3,", "2025", "sale" }

InitDate ==
    /\ PipelineIdle
    /\ lr_text = << >> /\ lr_href = << >> /\ lr_ret = FALSE /\ lr_pc = "idle"
    /\ pd_text \in SeqsUpTo(DateTokens, MaxDateLen)
    /\ pd_ret = << >>
    /\ pd_pc = "call"

CallParseDateStrings ==
    /\ pd_pc = "call"
    /\ pd_ret' = parse_date_strings(pd_text)
    /\ pd_pc' = "done"
    /\ UNCHANGED <<pd_text, pipeVars, lrVars>>

SpecDate == InitDate /\ [][CallParseDateStrings]_vars

---------------------------------------------------------------------------
(* Helpers of the properties *)

Range(f) == {f[i] : i \in DOMAIN f}

Links(rs) == {rs[k].link : k \in DOMAIN rs}

Returned == pc = "done"

RECURSIVE IsSubsequence(_, _)
IsSubsequence(a, b) ==
    IF a = << >> THEN TRUE
    ELSE IF b = << >> THEN FALSE
    ELSE IF Head(a) = Head(b) THEN IsSubsequence(Tail(a), Tail(b))
    ELSE IsSubsequence(a, Tail(b))

SiteIndex(county) == CHOOSE i \in DOMAIN COUNTY_SITES : COUNTY_SITES[i].county = county

\* results[k] is the first row of results with its link
FirstWithLink(k) == \A j \in 1..(k - 1) : results[j].link # results[k].link

\* the position of the run: sources left, then the phase, then anchors left
Position == <<NumSites + 1 - idx,
              CASE pc = "site" -> 1 [] pc = "links" -> 0 [] OTHER -> 0,
              IF pc = "done" THEN 0 ELSE Len(page) + 1>>

LexLess(a, b) ==
    \/ a[1] < b[1]
    \/ a[1] = b[1] /\ a[2] < b[2]
    \/ a[1] = b[1] /\ a[2] = b[2] /\ a[3] < b[3]

FailedPdfOutcomes == {"download_failed", "unreadable", "no_text"}

---------------------------------------------------------------------------
(* C1  Failures are isolated: whatever each source does (DNS failure, HTTP  *)
(* error, time-out, connection error, an unexpected exception on the page   *)
(* or at one of its anchors), the run can always take a next step until it   *)
(* has returned, every step brings it nearer to the return, every source is  *)
(* visited once and in order, and when scrape_page ends, by a failure or     *)
(* not, all rows built so far for the source are added to the rows of the    *)
(* sources before it, of which none is lost and which is what is             *)
(* deduplicated.                                                             *)
C1_FailuresIsolated ==
    /\ [](Returned \/ ENABLED Next)
    /\ [](Returned => idx = NumSites + 1 /\ Links(deduped) = Links(results))
    /\ [][ /\ LexLess(Position', Position)
           /\ idx' \in {idx, idx + 1}
           /\ idx' = idx + 1 => results' = results \o out
           /\ idx' = idx => results' = results
           /\ pc' = "links" /\ pc = "links" =>
                 \E n \in {Len(out), Len(out) + 1} :
                    Len(out') = n /\ SubSeq(out', 1, Len(out)) = out ]_vars

\* a source failed after it had built rows, a later source did not fail, and
\* the returned list holds rows of both
C1_Witness ==
    /\ Returned
    /\ \E i \in failures, j \in (1..NumSites) \ failures :
          /\ i < j
          /\ \E k \in DOMAIN deduped : deduped[k].county = COUNTY_SITES[i].county
          /\ \E k \in DOMAIN deduped : deduped[k].county = COUNTY_SITES[j].county

---------------------------------------------------------------------------
---------------------------------------------------------------------------
---------------------------------------------------------------------------
---------------------------------------------------------------------------
---------------------------------------------------------------------------
(* C6  As claimed: looks_relevant is true exactly when no EXCLUDE keyword is *)
(* in the text or the URL and either an INCLUDE keyword is in the text or    *)
(* the URL or the URL ends with .pdf, .doc or .docx.                         *)
ClaimedRelevant(text, href) ==
    LET t == lower(text)
        h == lower(href)
        excluded == \E x \in EXCLUDE_HINTS : Contains(x, t) \/ Contains(x, h)
    IN  \/ (\E x \in INCLUDE_HINTS : Contains(x, t) \/ Contains(x, h)) /\ ~excluded
        \/ (\E e \in DOC_EXT : EndsWith(h, e)) /\ ~excluded

C6_RelevantAsClaimed ==
    lr_pc = "done" => (lr_ret <=> ClaimedRelevant(lr_text, lr_href))

---------------------------------------------------------------------------
(* C7  Only seed URLs and relevant links of the seed page are fetched: a     *)
(* step that fetches a URL fetches the seed URL of the current source or     *)
(* the link of the anchor being visited, and then that link passed           *)
(* looks_relevant; every row is the row of a link that passed                *)
(* looks_relevant; the anchors visited are those of the seed page alone.     *)
C7_OnlyRelevantLinksFetched ==
    /\ [](\A r \in Range(results) \cup Range(out) :
             looks_relevant(r.title, UrlStr(r.link)))
    /\ [][ /\ \A u \in fetched' \ fetched :
                \/ pc = "site" /\ u = SeedUrl
                \/ /\ pc = "links" /\ page # << >>
                   /\ u = Head(page).full
                   /\ looks_relevant(Title(Head(page)), UrlStr(u))
           /\ pc = "links" /\ pc' = "links" => page' = Tail(page) ]_vars

\* an anchor was rejected by the filter: its link is not fetched and has no row
C7_Witness ==
    /\ last.outcome = "rejected"
    /\ ~looks_relevant(Title(last.anchor), UrlStr(last.anchor.full))
    /\ last.anchor.full \notin fetched
    /\ last.anchor.full \notin Links(out)
    /\ fetched # {}

---------------------------------------------------------------------------
(* C8  The starts of the dates of each family in a text                      *)
DateStarts(p, text) == {i \in 1..Len(text) : MatchAt(p, text, i) # << >>}

Least(S) == CHOOSE i \in S : \A j \in S : i <= j

(* C8  As claimed: the date that starts first in the text is returned,       *)
(* whichever its family; the empty string when the text holds no date.       *)
C8_EarliestDateWins ==
    pd_pc = "done" =>
        LET N == DateStarts("numeric", pd_text)
            T == DateStarts("textual", pd_text)
        IN  IF N \cup T = {} THEN pd_ret = << >>
            ELSE IF Least(N \cup T) \in N
                 THEN pd_ret = MatchAt("numeric", pd_text, Least(N \cup T))
            ELSE pd_ret = MatchAt("textual", pd_text, Least(N \cup T))

(* C8  As amended: the first numeric date of the text is returned when the   *)
(* text holds a numeric date, wherever the textual dates are; otherwise the  *)
(* first textual date; the empty string exactly when the text holds no date  *)
(* of either family.  Dates are not validated.                               *)
C8_NumericFamilyFirst ==
    pd_pc = "done" =>
        LET N == DateStarts("numeric", pd_text)
            T == DateStarts("textual", pd_text)
        IN  /\ N # {} => pd_ret = <<pd_text[Least(N)]>>
            /\ N = {} /\ T # {} => pd_ret = MatchAt("textual", pd_text, Least(T))
            /\ (pd_ret = << >>) <=> (N \cup T = {})

\* a textual date comes before a numeric one, and the numeric one is returned
C8_Witness ==
    /\ pd_pc = "done"
    /\ DateStarts("numeric", pd_text) # {}
    /\ DateStarts("textual", pd_text) # {}
    /\ Least(DateStarts("textual", pd_text)) < Least(DateStarts("numeric", pd_text))
    /\ pd_ret = <<pd_text[Least(DateStarts("numeric", pd_text))]>>

---------------------------------------------------------------------------
(* C9  The returned list is a subsequence of the rows of the sources taken   *)
(* in the order of COUNTY_SITES, and the row kept for a link is the first    *)
(* row built with that link.                                                 *)
C9_FirstWriterWins ==
    Returned =>
        /\ IsSubsequence(deduped, results)
        /\ \A k, l \in DOMAIN results :
              k < l => SiteIndex(results[k].county) <= SiteIndex(results[l].county)
        /\ \A k \in DOMAIN results :
              results[k] \in Range(deduped) => FirstWithLink(k)

\* a later row was dropped for an earlier one, and at least two rows are returned
C9_Witness ==
    /\ Returned
    /\ Len(deduped) >= 2
    /\ \E k \in DOMAIN results : ~FirstWithLink(k) /\ results[k] \notin Range(deduped)

---------------------------------------------------------------------------
(* C10  In the returned list no two rows have the same link, whatever their  *)
(* sites, and every link of a row built occurs in it.                        *)
C10_LinkUnique ==
    Returned =>
        /\ \A i, j \in DOMAIN deduped : i < j => deduped[i].link # deduped[j].link
        /\ Links(deduped) = Links(results)

\* two sites built a row for the same link; one row with the link is returned
C10_Witness ==
    /\ Returned
    /\ \E i, j \in DOMAIN results :
          /\ results[i].county # results[j].county
          /\ results[i].link = results[j].link
          /\ Cardinality({k \in DOMAIN deduped : deduped[k].link = results[i].link}) = 1

====
